---- MODULE Spec2Model ----
(***************************************************************************)
(* XLIFF Fixer Pro: the heuristic repair pipeline (services/repairService),*)
(* the AI repair post-processing (services/geminiService) and the repair   *)
(* handlers of the App component (App.tsx).                                *)
(*                                                                         *)
(* Strings are sequences of UTF-16 code units (integers).  Offsets into a  *)
(* string are 0-based as in JavaScript: offset p denotes s[p + 1].         *)
(***************************************************************************)
EXTENDS Integers, Sequences, FiniteSets, TLC

\* ------------------------------------------------------------------------
\* Characters and string helpers
\* ------------------------------------------------------------------------

\* Code unit of a one-character literal.
Ord(c) ==
  CASE c = "\t" -> 9   [] c = "\n" -> 10  [] c = "\r" -> 13  [] c = " " -> 32
    [] c = "!" -> 33   [] c = "#" -> 35   [] c = "&" -> 38   [] c = "-" -> 45
    [] c = "/" -> 47   [] c = "0" -> 48   [] c = "1" -> 49   [] c = "9" -> 57
    [] c = ";" -> 59   [] c = "<" -> 60   [] c = ">" -> 62
    [] c = "A" -> 65   [] c = "C" -> 67   [] c = "D" -> 68   [] c = "F" -> 70
    [] c = "L" -> 76   [] c = "T" -> 84   [] c = "X" -> 88   [] c = "Z" -> 90
    [] c = "[" -> 91   [] c = "]" -> 93   [] c = "_" -> 95
    [] c = "a" -> 97   [] c = "f" -> 102  [] c = "g" -> 103  [] c = "l" -> 108
    [] c = "m" -> 109  [] c = "o" -> 111  [] c = "p" -> 112  [] c = "q" -> 113
    [] c = "s" -> 115  [] c = "t" -> 116  [] c = "u" -> 117  [] c = "x" -> 120
    [] c = "z" -> 122

\* A string literal written as a tuple of one-character strings.
Lit(t) == [i \in 1..Len(t) |-> Ord(t[i])]

\* F applied to the value of v: v is evaluated once, before F's body.
Strict(v, F(_)) == CHOOSE y \in { F(x) : x \in {v} } : TRUE

\* s.substring(from, to) with 0-based, end-exclusive offsets.
Substring(s, from, to) == SubSeq(s, from + 1, to)

\* s[p] in JavaScript terms; -1 when p is past the end.
CharAt(s, p) == IF p >= 0 /\ p < Len(s) THEN s[p + 1] ELSE -1

\* s.startsWith(lit, p)
StartsWithAt(s, lit, p) ==
  /\ p >= 0
  /\ p + Len(lit) <= Len(s)
  /\ \A i \in 1..Len(lit) : s[p + i] = lit[i]

\* ------------------------------------------------------------------------
\* Regular expressions of heuristicRepair
\* ------------------------------------------------------------------------

illegalCharRegex == [id |-> "illegalChar", global |-> TRUE]
unescapedAmpRegex == [id |-> "unescapedAmp", global |-> TRUE]
unescapedLtRegex == [id |-> "unescapedLt", global |-> TRUE]
malformedClosingRegex == [id |-> "malformedClosing", global |-> FALSE]

\* [\x00-\x08\x0B\x0C\x0E-\x1F]
IsIllegalChar(c) == (c >= 0 /\ c <= 8) \/ c = 11 \/ c = 12 \/ (c >= 14 /\ c <= 31)

\* \d
IsDigit(c) == c >= 48 /\ c <= 57

\* Canonicalize of the i flag (non-unicode): ASCII lower case to upper case.
Canonicalize(c) == IF c >= 97 /\ c <= 122 THEN c - 32 ELSE c

\* [a-f\d] under the i flag
IsHexDigit(c) == IsDigit(c) \/ (Canonicalize(c) >= 65 /\ Canonicalize(c) <= 70)

\* \s
IsWhiteSpace(c) ==
  c \in {9, 10, 11, 12, 13, 32, 160, 5760, 8232, 8233, 8239, 8287, 12288, 65279}
  \/ (c >= 8192 /\ c <= 8202)

\* [a-zA-Z0-9-_]
IsTagNameChar(c) ==
  \/ (c >= 97 /\ c <= 122)
  \/ (c >= 65 /\ c <= 90)
  \/ IsDigit(c)
  \/ c = 45
  \/ c = 95

\* A literal of the pattern matched at offset p under the i flag.
MatchesIgnoreCaseAt(s, lit, p) ==
  /\ p + Len(lit) <= Len(s)
  /\ \A i \in 1..Len(lit) : Canonicalize(s[p + i]) = Canonicalize(lit[i])

EntityNames ==
  { Lit(<<"a","m","p">>), Lit(<<"l","t">>), Lit(<<"g","t">>),
    Lit(<<"a","p","o","s">>), Lit(<<"q","u","o","t">>) }

\* The lookahead body without the i flag.
EntityBodyAt_CaseSensitive(s, p) ==
  \/ \E n \in EntityNames :
       /\ StartsWithAt(s, n, p)
       /\ CharAt(s, p + Len(n)) = 59
  \/ /\ CharAt(s, p) = 35
     /\ \E k \in 1..Len(s) :
          /\ \A j \in 1..k : IsDigit(CharAt(s, p + j))
          /\ CharAt(s, p + k + 1) = 59
  \/ /\ CharAt(s, p) = 35
     /\ CharAt(s, p + 1) = 120
     /\ \E k \in 1..Len(s) :
          /\ \A j \in 1..k : IsHexDigit(CharAt(s, p + 1 + j))
          /\ CharAt(s, p + k + 2) = 59

\* A pattern without the lookahead.
EntityBodyAt_Never(s, p) == FALSE

\* The lookahead body (?:amp|lt|gt|apos|quot|#\d+|#x[a-f\d]+); at offset p.
EntityBodyAt(s, p) ==
  \/ \E n \in EntityNames :
       /\ MatchesIgnoreCaseAt(s, n, p)
       /\ CharAt(s, p + Len(n)) = 59
  \/ /\ CharAt(s, p) = 35
     /\ \E k \in 1..Len(s) :
          /\ \A j \in 1..k : IsDigit(CharAt(s, p + j))
          /\ CharAt(s, p + k + 1) = 59
  \/ /\ CharAt(s, p) = 35
     /\ Canonicalize(CharAt(s, p + 1)) = 88
     /\ \E k \in 1..Len(s) :
          /\ \A j \in 1..k : IsHexDigit(CharAt(s, p + 1 + j))
          /\ CharAt(s, p + k + 2) = 59

\* The end offset of the closing-tag pattern <\/([a-zA-Z0-9-_]+)$ tried at p,
\* or -1: the greedy name must run to the end of the input.
MalformedClosingEnd_Unanchored(s, p) ==
  IF /\ CharAt(s, p) = 60
     /\ CharAt(s, p + 1) = 47
     /\ IsTagNameChar(CharAt(s, p + 2))
  THEN CHOOSE e \in (p + 3)..Len(s) :
         /\ \A j \in (p + 2)..(e - 1) : IsTagNameChar(CharAt(s, j))
         /\ ~IsTagNameChar(CharAt(s, e))
  ELSE -1

MalformedClosingEnd(s, p) ==
  IF /\ CharAt(s, p) = 60
     /\ CharAt(s, p + 1) = 47
     /\ p + 2 < Len(s)
     /\ \A j \in (p + 2)..(Len(s) - 1) : IsTagNameChar(CharAt(s, j))
  THEN Len(s)
  ELSE -1

\* One attempt of the pattern at offset p: the end offset of the match
\* (end-exclusive), or -1 when the pattern does not match there.
MatchAt(re, s, p) ==
  CASE re.id = "illegalChar" ->
         IF IsIllegalChar(CharAt(s, p)) THEN p + 1 ELSE -1
    [] re.id = "unescapedAmp" ->
         IF CharAt(s, p) = 38 /\ ~EntityBodyAt(s, p + 1) THEN p + 1 ELSE -1
    [] re.id = "unescapedLt" ->
         IF CharAt(s, p) = 60 /\ IsWhiteSpace(CharAt(s, p + 1)) THEN p + 2 ELSE -1
    [] re.id = "malformedClosing" -> MalformedClosingEnd(s, p)

\* Capture group 1 of a match [index, end) as a pair of offsets.
Group1(re, index, end) ==
  CASE re.id = "unescapedLt" -> <<index + 1, index + 2>>
    [] re.id = "malformedClosing" -> <<index + 2, end>>
    [] OTHER -> <<index, index>>

\* RegExpBuiltinExec: the search starts at lastIndex for a global regex and
\* at 0 otherwise; a global regex records the end of the match in lastIndex
\* and resets it to 0 on failure.
RECURSIVE ExecFrom(_, _, _)
ExecFrom(re, s, from) ==
  Strict(from, LAMBDA start :
    IF start > Len(s)
    THEN [found |-> FALSE, index |-> -1, end |-> -1, lastIndex |-> 0]
    ELSE Strict(MatchAt(re, s, start), LAMBDA e :
           IF e >= 0
           THEN [found |-> TRUE, index |-> start, end |-> e,
                 lastIndex |-> IF re.global THEN e ELSE 0]
           ELSE ExecFrom(re, s, start + 1)))

RegExpExec(re, s, lastIndex) ==
  Strict(ExecFrom(re, s, IF re.global THEN lastIndex ELSE 0), LAMBDA r :
    IF re.global THEN r ELSE [r EXCEPT !.lastIndex = lastIndex])

\* RegExp.prototype.test
RegExpTest(re, s, lastIndex) ==
  Strict(RegExpExec(re, s, lastIndex), LAMBDA r :
    [matched |-> r.found, lastIndex |-> r.lastIndex])

\* The replacement templates "", "&amp;", "&lt;$1" and "</$1>".
Replacement_DropGroup(re, s, index, end) ==
  CASE re.id = "illegalChar" -> <<>>
    [] re.id = "unescapedAmp" -> Lit(<<"&","a","m","p",";">>)
    [] re.id = "unescapedLt" -> Lit(<<"&","l","t",";">>)
    [] re.id = "malformedClosing" ->
         Lit(<<"<","/">>) \o Lit(<<">">>)

Replacement(re, s, index, end) ==
  LET g == Group1(re, index, end)
      g1 == Substring(s, g[1], g[2]) IN
  CASE re.id = "illegalChar" -> <<>>
    [] re.id = "unescapedAmp" -> Lit(<<"&","a","m","p",";">>)
    [] re.id = "unescapedLt" -> Lit(<<"&","l","t",";">>) \o g1
    [] re.id = "malformedClosing" ->
         Lit(<<"<","/">>) \o g1 \o Lit(<<">">>)

\* RegExp.prototype[Symbol.replace]: collect the matches (all of them for a
\* global regex, the first otherwise) and splice the replacements in.
RECURSIVE ReplaceLoop(_, _, _, _, _)
ReplaceLoop(re, s, lastIndex, pos, acc) ==
  Strict(RegExpExec(re, s, lastIndex), LAMBDA r :
    IF ~r.found
    THEN acc \o Substring(s, pos, Len(s))
    ELSE Strict(acc \o Substring(s, pos, r.index)
                    \o Replacement(re, s, r.index, r.end), LAMBDA acc2 :
           IF re.global
           THEN ReplaceLoop(re, s, r.lastIndex, r.end, acc2)
           ELSE acc2 \o Substring(s, r.end, Len(s))))

\* String.prototype.replace(re, template), given the regex's lastIndex.
StringReplace_KeepLastIndex(re, s, lastIndex) ==
  ReplaceLoop(re, s, lastIndex, 0, <<>>)

StringReplace(re, s, lastIndex) ==
  ReplaceLoop(re, s, 0, 0, <<>>)

\* ------------------------------------------------------------------------
\* The platform XML parser behind DOMParser.parseFromString(xml,
\* "application/xml"): XML 1.0 well-formedness of documents made of
\* elements without attributes, character data, references, comments and
\* CDATA sections (no prolog, DOCTYPE or processing instruction).
\* ------------------------------------------------------------------------

\* Char ::= #x9 | #xA | #xD | [#x20-#xD7FF] | [#xE000-#xFFFD] | [#x10000-#x10FFFF]
IsXmlChar(c) ==
  \/ c \in {9, 10, 13}
  \/ (c >= 32 /\ c <= 55295)
  \/ (c >= 57344 /\ c <= 65533)
  \/ (c >= 65536 /\ c <= 1114111)

\* S ::= (#x20 | #x9 | #xD | #xA)+
IsXmlSpace(c) == c \in {9, 10, 13, 32}

IsNameStartChar(c) ==
  \/ c = 58 \/ c = 95
  \/ (c >= 65 /\ c <= 90)
  \/ (c >= 97 /\ c <= 122)
  \/ (c >= 192 /\ c <= 767 /\ c # 215 /\ c # 247)

IsNameChar(c) ==
  \/ IsNameStartChar(c)
  \/ c = 45 \/ c = 46 \/ c = 183
  \/ (c >= 48 /\ c <= 57)

\* The offset just past the longest run of characters satisfying the class
\* that starts at p.
RECURSIVE NameEnd(_, _)
NameEnd(s, p) == IF IsNameChar(CharAt(s, p)) THEN NameEnd(s, p + 1) ELSE p

RECURSIVE SpaceEnd(_, _)
SpaceEnd(s, p) == IF IsXmlSpace(CharAt(s, p)) THEN SpaceEnd(s, p + 1) ELSE p

\* The first offset q >= p at which lit occurs, or -1.
RECURSIVE IndexOf(_, _, _)
IndexOf(s, lit, p) ==
  IF p + Len(lit) > Len(s) THEN -1
  ELSE IF StartsWithAt(s, lit, p) THEN p
  ELSE IndexOf(s, lit, p + 1)

\* Value of a run of digits in the given radix; capped above the Char range.
DigitValue(c) ==
  IF IsDigit(c) THEN c - 48 ELSE Canonicalize(c) - 55

RECURSIVE RadixValue(_, _, _, _, _)
RadixValue(s, p, q, radix, acc) ==
  IF p >= q THEN acc
  ELSE IF acc > 1114111 THEN acc
  ELSE RadixValue(s, p + 1, q, radix, acc * radix + DigitValue(CharAt(s, p)))

RECURSIVE DigitsEnd(_, _)
DigitsEnd(s, p) == IF IsDigit(CharAt(s, p)) THEN DigitsEnd(s, p + 1) ELSE p

RECURSIVE HexDigitsEnd(_, _)
HexDigitsEnd(s, p) == IF IsHexDigit(CharAt(s, p)) THEN HexDigitsEnd(s, p + 1) ELSE p

\* Reference ::= EntityRef | CharRef at offset p (s[p] = "&"): the offset
\* past the reference, or -1.  Without a DTD only the five predefined
\* entities are declared; a character reference must denote a legal Char.
ReferenceEnd(s, p) ==
  IF CharAt(s, p + 1) = 35
  THEN IF CharAt(s, p + 2) = 120
       THEN LET e == HexDigitsEnd(s, p + 3) IN
            IF e > p + 3 /\ CharAt(s, e) = 59
               /\ IsXmlChar(RadixValue(s, p + 3, e, 16, 0))
            THEN e + 1 ELSE -1
       ELSE LET e == DigitsEnd(s, p + 2) IN
            IF e > p + 2 /\ CharAt(s, e) = 59
               /\ IsXmlChar(RadixValue(s, p + 2, e, 10, 0))
            THEN e + 1 ELSE -1
  ELSE LET e == NameEnd(s, p + 1) IN
       IF CharAt(s, e) = 59 /\ Substring(s, p + 1, e) \in EntityNames
       THEN e + 1 ELSE -1

CommentOpen == Lit(<<"<","!","-","-">>)
CDataOpen == Lit(<<"<","!","[","C","D","A","T","A","[">>)
CDataClose == Lit(<<"]","]",">">>)

\* The document from offset p on, with the names of the open elements in
\* stack (innermost last) and seenRoot telling whether the root element has
\* been opened.
RECURSIVE WellFormedFrom(_, _, _, _)
WellFormedFrom(s, pos, open, seenRoot) ==
  Strict(pos, LAMBDA p :
  Strict(open, LAMBDA stack :
    IF p >= Len(s) THEN stack = <<>> /\ seenRoot
    ELSE IF ~IsXmlChar(CharAt(s, p)) THEN FALSE
    ELSE IF StartsWithAt(s, CommentOpen, p)
    THEN Strict(IndexOf(s, Lit(<<"-","-">>), p + 4), LAMBDA q :
           /\ q >= 0
           /\ CharAt(s, q + 2) = 62
           /\ \A j \in (p + 4)..(q - 1) : IsXmlChar(CharAt(s, j))
           /\ WellFormedFrom(s, q + 3, stack, seenRoot))
    ELSE IF StartsWithAt(s, CDataOpen, p)
    THEN Strict(IndexOf(s, CDataClose, p + 9), LAMBDA q :
           /\ stack # <<>>
           /\ q >= 0
           /\ \A j \in (p + 9)..(q - 1) : IsXmlChar(CharAt(s, j))
           /\ WellFormedFrom(s, q + 3, stack, seenRoot))
    ELSE IF CharAt(s, p) = 60 /\ CharAt(s, p + 1) = 47
    THEN Strict(NameEnd(s, p + 2), LAMBDA e :
         Strict(SpaceEnd(s, e), LAMBDA g :
           /\ IsNameStartChar(CharAt(s, p + 2))
           /\ CharAt(s, g) = 62
           /\ stack # <<>>
           /\ stack[Len(stack)] = Substring(s, p + 2, e)
           /\ WellFormedFrom(s, g + 1, SubSeq(stack, 1, Len(stack) - 1),
                             seenRoot)))
    ELSE IF CharAt(s, p) = 60
    THEN Strict(NameEnd(s, p + 1), LAMBDA e :
         Strict(SpaceEnd(s, e), LAMBDA g :
           /\ IsNameStartChar(CharAt(s, p + 1))
           /\ stack # <<>> \/ ~seenRoot
           /\ \/ /\ CharAt(s, g) = 62
                 /\ WellFormedFrom(s, g + 1,
                                   Append(stack, Substring(s, p + 1, e)), TRUE)
              \/ /\ CharAt(s, g) = 47
                 /\ CharAt(s, g + 1) = 62
                 /\ WellFormedFrom(s, g + 2, stack, TRUE)))
    ELSE IF CharAt(s, p) = 38
    THEN Strict(ReferenceEnd(s, p), LAMBDA e :
           /\ stack # <<>>
           /\ e >= 0
           /\ WellFormedFrom(s, e, stack, seenRoot))
    ELSE IF stack # <<>>
    THEN /\ ~StartsWithAt(s, CDataClose, p)
         /\ WellFormedFrom(s, p + 1, stack, seenRoot)
    ELSE /\ IsXmlSpace(CharAt(s, p))
         /\ WellFormedFrom(s, p + 1, stack, seenRoot)))

WellFormed(s) == WellFormedFrom(s, 0, <<>>, FALSE)

\* ------------------------------------------------------------------------
\* services/repairService.ts
\* ------------------------------------------------------------------------

\* What the host does when asked to parse: the call may throw, and the text
\* of the parsererror node it reports may be empty.
ParserEnvs ==
  { [throws |-> FALSE, message |-> "XML Parsing Error: not well-formed"],
    [throws |-> FALSE, message |-> ""],
    [throws |-> TRUE, message |-> ""] }

\* doc.querySelector("parsererror") of the parsed document.
ParseFromString(xml, env) ==
  IF WellFormed(xml)
  THEN [errorNode |-> FALSE, textContent |-> ""]
  ELSE [errorNode |-> TRUE, textContent |-> env.message]

Thrown ==
  [threw |-> TRUE, fixedContent |-> <<>>, isValid |-> FALSE,
   errors |-> <<>>, wasModified |-> FALSE]

ErrorText_NoFallback(textContent) == textContent

\* errorNode.textContent || "Unknown XML parsing error"
ErrorText(textContent) ==
  IF textContent # "" THEN textContent ELSE "Unknown XML parsing error"

validateXML(xml, env) ==
  IF env.throws
  THEN [threw |-> TRUE, isValid |-> FALSE, errors |-> <<>>]
  ELSE Strict(ParseFromString(xml, env), LAMBDA doc :
         IF doc.errorNode
         THEN [threw |-> FALSE, isValid |-> FALSE,
               errors |-> <<ErrorText(doc.textContent)>>]
         ELSE [threw |-> FALSE, isValid |-> TRUE, errors |-> <<>>])

\* if (re.test(content)) { content = content.replace(re, template); }
\* on a regex object created with lastIndex = 0.
ApplyFix(re, content) ==
  Strict(RegExpTest(re, content, 0), LAMBDA t :
    IF t.matched THEN StringReplace(re, content, t.lastIndex) ELSE content)

\* The values of `content` after each of the four fixes.
FixStages(rawContent) ==
  Strict(ApplyFix(illegalCharRegex, rawContent), LAMBDA c1 :
  Strict(ApplyFix(unescapedAmpRegex, c1), LAMBDA c2 :
  Strict(ApplyFix(unescapedLtRegex, c2), LAMBDA c3 :
  Strict(ApplyFix(malformedClosingRegex, c3), LAMBDA c4 :
    <<c1, c2, c3, c4>>))))

WasModified_Initial(content, original) == FALSE

\* wasModified = content !== original
WasModified(content, original) == content # original

heuristicRepair(rawContent, env) ==
  Strict(FixStages(rawContent)[4], LAMBDA content :
  Strict(validateXML(content, env), LAMBDA validation :
    IF validation.threw
    THEN Thrown
    ELSE [threw |-> FALSE,
          fixedContent |-> content,
          isValid |-> validation.isValid,
          errors |-> validation.errors,
          wasModified |-> WasModified(content, rawContent)]))

\* ------------------------------------------------------------------------
\* services/geminiService.ts
\* ------------------------------------------------------------------------

FenceXml == <<96, 96, 96>> \o Lit(<<"x","m","l","\n">>)
FenceOpen == <<96, 96, 96, 10>>
FenceClose == <<10, 96, 96, 96>>

\* s.replace(/^lit/, '')
StripPrefix(s, lit) ==
  IF StartsWithAt(s, lit, 0) THEN Substring(s, Len(lit), Len(s)) ELSE s

\* s.replace(/lit$/, '')
StripSuffix(s, lit) ==
  IF StartsWithAt(s, lit, Len(s) - Len(lit))
  THEN Substring(s, 0, Len(s) - Len(lit)) ELSE s

CleanMarkdown(text) ==
  Strict(StripPrefix(text, FenceXml), LAMBDA t1 :
  Strict(StripPrefix(t1, FenceOpen), LAMBDA t2 :
    StripSuffix(t2, FenceClose)))

\* apiKey: whether process.env.API_KEY is set; ai: the outcome of
\* generateContent, rejected or resolved with response.text (<<>> when
\* the response carries no text).
repairWithGemini(brokenContent, apiKey, ai, env) ==
  IF ~apiKey THEN Thrown
  ELSE IF ai.rejected THEN Thrown
  ELSE Strict(CleanMarkdown(ai.text), LAMBDA fixedContent :
       Strict(validateXML(fixedContent, env), LAMBDA validation :
         IF validation.threw
         THEN Thrown
         ELSE [threw |-> FALSE,
               fixedContent |-> fixedContent,
               isValid |-> validation.isValid,
               errors |-> validation.errors,
               wasModified |-> TRUE]))

\* ------------------------------------------------------------------------
\* Inputs: an envelope around a bounded run of fragments
\* ------------------------------------------------------------------------

MaxFrags == 2

Fragments ==
  << <<1>>,
     Lit(<<"\t">>),
     Lit(<<"\r","\n">>),
     Lit(<<"&">>),
     Lit(<<"a","m","p",";">>),
     Lit(<<"&","L","T",";">>),
     Lit(<<"#">>),
     Lit(<<"#","x","F",";">>),
     Lit(<<"#","1",";">>),
     Lit(<<"<">>),
     Lit(<<"<","/","a">>),
     Lit(<<">">>) >>

Envelopes ==
  { << <<>>, <<>> >>,
    << Lit(<<"<","a",">">>), Lit(<<"<","/","a",">">>) >>,
    << Lit(<<"<","a",">">>), Lit(<<"<","/","a">>) >>,
    << Lit(<<"<","a",">","<","!","-","-">>),
       Lit(<<"-","-",">","<","/","a",">">>) >>,
    << Lit(<<"<","a",">","<","!","[","C","D","A","T","A","[">>),
       Lit(<<"]","]",">","<","/","a",">">>) >> }

RECURSIVE Concat(_)
Concat(ixs) ==
  IF ixs = <<>> THEN <<>> ELSE Fragments[Head(ixs)] \o Concat(Tail(ixs))

Bodies == UNION { [1..n -> 1..Len(Fragments)] : n \in 0..MaxFrags }

Inputs == { e[1] \o Concat(b) \o e[2] : e \in Envelopes, b \in Bodies }

\* Texts a model may answer with for a given prompt.
AiOutcomes(brokenContent) ==
  { [rejected |-> TRUE, text |-> <<>>],
    [rejected |-> FALSE, text |-> <<>>],
    [rejected |-> FALSE, text |-> brokenContent],
    [rejected |-> FALSE, text |-> FenceXml \o brokenContent \o FenceClose],
    [rejected |-> FALSE, text |-> FenceOpen \o brokenContent] }

\* ------------------------------------------------------------------------
\* State
\* ------------------------------------------------------------------------

VARIABLES
  rawContent,   \* the argument of the service call
  call,         \* which service function has been called on it
  returned,     \* what the call returned (threw = TRUE: it threw instead)
  stages,       \* `content` after each fix of the last heuristicRepair
  firstRun,     \* the result of the previous heuristicRepair, when re-run
  file,         \* App: useState<FileData | null>, {} for null
  result,       \* App: useState<RepairResult | null>, {} for null
  resultOf,     \* the file whose content `result` was computed from
  isProcessing, \* App: useState(false)
  pending,      \* App: callbacks and promises not yet run or settled
  apiKey,       \* whether process.env.API_KEY is set
  aistudio      \* whether window.aistudio exists

svars == <<rawContent, call, returned, stages, firstRun>>

avars == <<file, result, resultOf, isProcessing, pending, apiKey, aistudio>>

vars == <<rawContent, call, returned, stages, firstRun,
          file, result, resultOf, isProcessing, pending, apiKey, aistudio>>

NoResult == [threw |-> FALSE, fixedContent |-> <<>>, isValid |-> FALSE,
             errors |-> <<>>, wasModified |-> FALSE]

\* The App component as mounted, before any event.
AppMounted ==
  /\ file = {}
  /\ result = {}
  /\ resultOf = {}
  /\ isProcessing = FALSE
  /\ pending = <<>>

\* No service call made from outside the component.
NoCall ==
  /\ call = "none"
  /\ returned = NoResult
  /\ stages = <<>>
  /\ firstRun = NoResult

Init ==
  /\ rawContent \in Inputs
  /\ NoCall
  /\ AppMounted
  /\ apiKey = FALSE
  /\ aistudio = FALSE

CallValidateXML ==
  /\ call = "none"
  /\ \E env \in ParserEnvs :
       returned' = validateXML(rawContent, env)
  /\ call' = "validateXML"
  /\ UNCHANGED <<rawContent, stages, firstRun>>
  /\ UNCHANGED avars

CallHeuristicRepair ==
  /\ call = "none"
  /\ \E env \in ParserEnvs :
       returned' = heuristicRepair(rawContent, env)
  /\ stages' = FixStages(rawContent)
  /\ call' = "heuristicRepair"
  /\ UNCHANGED <<rawContent, firstRun>>
  /\ UNCHANGED avars

\* heuristicRepair applied to the fixedContent of a previous run.
CallHeuristicRepairAgain ==
  /\ call = "heuristicRepair"
  /\ ~returned.threw
  /\ rawContent' = returned.fixedContent
  /\ firstRun' = returned
  /\ \E env \in ParserEnvs :
       returned' = heuristicRepair(returned.fixedContent, env)
  /\ stages' = FixStages(returned.fixedContent)
  /\ call' = "heuristicRepairAgain"
  /\ UNCHANGED avars

CallRepairWithGemini ==
  /\ call = "none"
  /\ \E key \in BOOLEAN, ai \in AiOutcomes(rawContent), env \in ParserEnvs :
       returned' = repairWithGemini(rawContent, key, ai, env)
  /\ call' = "repairWithGemini"
  /\ UNCHANGED <<rawContent, stages, firstRun>>
  /\ UNCHANGED avars

Next ==
  \/ CallValidateXML
  \/ CallHeuristicRepair
  \/ CallHeuristicRepairAgain
  \/ CallRepairWithGemini

Spec == Init /\ [][Next]_vars

\* ------------------------------------------------------------------------
\* App.tsx
\* ------------------------------------------------------------------------

MAX_FILE_SIZE == 5 * 1024 * 1024
ALLOWED_EXTENSIONS == {".xlf", ".xliff", ".xml"}

MaxPending == 2

\* The files a user may pick: name as its dot-separated parts.
FileObjs ==
  { [name |-> <<"a", "XLF">>, size |-> 8,
     content |-> Lit(<<"<","a",">","&","<","/","a",">">>)],
    [name |-> <<"b", "xml">>, size |-> 4,
     content |-> Lit(<<"<","a","/",">">>)],
    [name |-> <<"c", "txt">>, size |-> 4,
     content |-> Lit(<<"<","a","/",">">>)],
    [name |-> <<"d", "xml">>, size |-> MAX_FILE_SIZE + 1,
     content |-> <<>>] }

ToLowerCase(part) ==
  CASE part = "XLF" -> "xlf" [] part = "XML" -> "xml" [] OTHER -> part

\* '.' + fileObj.name.split('.').pop()?.toLowerCase()
ExtensionOf(name) ==
  CASE ToLowerCase(name[Len(name)]) = "xlf" -> ".xlf"
    [] ToLowerCase(name[Len(name)]) = "xliff" -> ".xliff"
    [] ToLowerCase(name[Len(name)]) = "xml" -> ".xml"
    [] OTHER -> ".other"

\* The checks of handleFileRead before the file is read.
Accepted(fileObj) ==
  /\ ~(fileObj.size > MAX_FILE_SIZE)
  /\ ExtensionOf(fileObj.name) \in ALLOWED_EXTENSIONS

\* Button with isLoading = isProcessing does not take clicks while loading.
ButtonEnabled == ~isProcessing

Remove(seq, i) == SubSeq(seq, 1, i - 1) \o SubSeq(seq, i + 1, Len(seq))

AppInit ==
  /\ rawContent = <<>>
  /\ NoCall
  /\ AppMounted
  /\ apiKey \in BOOLEAN
  /\ aistudio \in BOOLEAN

\* handleFileRead from the file input or a drop; the upload area is
\* rendered only while no file is loaded.
HandleFileRead ==
  /\ file = {}
  /\ Len(pending) < MaxPending
  /\ \E fileObj \in FileObjs :
       IF Accepted(fileObj)
       THEN pending' = Append(pending, [kind |-> "read", file |-> fileObj,
                                        hadKey |-> FALSE])
       ELSE UNCHANGED pending
  /\ UNCHANGED <<file, result, resultOf, isProcessing, apiKey, aistudio>>
  /\ UNCHANGED svars

\* reader.onload
ReaderOnLoad ==
  /\ \E i \in 1..Len(pending) :
       /\ pending[i].kind = "read"
       /\ file' = {[name |-> pending[i].file.name,
                    size |-> pending[i].file.size,
                    content |-> pending[i].file.content]}
       /\ pending' = Remove(pending, i)
  /\ result' = {}
  /\ resultOf' = {}
  /\ UNCHANGED <<isProcessing, apiKey, aistudio>>
  /\ UNCHANGED svars

\* reader.onerror
ReaderOnError ==
  /\ \E i \in 1..Len(pending) :
       /\ pending[i].kind = "read"
       /\ pending' = Remove(pending, i)
  /\ UNCHANGED <<file, result, resultOf, isProcessing, apiKey, aistudio>>
  /\ UNCHANGED svars

\* The trash button: setFile(null); setResult(null); setLogs([]).
RemoveFile ==
  /\ file # {}
  /\ file' = {}
  /\ result' = {}
  /\ resultOf' = {}
  /\ UNCHANGED <<isProcessing, pending, apiKey, aistudio>>
  /\ UNCHANGED svars

\* runHeuristicRepair up to the return of setTimeout.
RunHeuristicRepair ==
  /\ file # {}
  /\ ButtonEnabled
  /\ Len(pending) < MaxPending
  /\ isProcessing' = TRUE
  /\ \E f \in file :
       pending' = Append(pending, [kind |-> "timer", file |-> f,
                                   hadKey |-> FALSE])
  /\ UNCHANGED <<file, result, resultOf, apiKey, aistudio>>
  /\ UNCHANGED svars

\* The callback given to setTimeout: an exception of heuristicRepair leaves
\* the callback before setResult and setIsProcessing(false).
TimerCallback ==
  /\ \E i \in 1..Len(pending), env \in ParserEnvs :
       /\ pending[i].kind = "timer"
       /\ pending' = Remove(pending, i)
       /\ \E repair \in {heuristicRepair(pending[i].file.content, env)} :
            IF repair.threw
            THEN UNCHANGED <<result, resultOf, isProcessing>>
            ELSE /\ result' = {repair}
                 /\ resultOf' = {pending[i].file}
                 /\ isProcessing' = FALSE
  /\ UNCHANGED <<file, apiKey, aistudio>>
  /\ UNCHANGED svars

\* runGeminiRepair up to its first await: the key check when no key is set
\* and window.aistudio exists, the call of repairWithGemini otherwise.
RunGeminiRepair ==
  /\ file # {}
  /\ ButtonEnabled
  /\ Len(pending) < MaxPending
  /\ \E f \in file :
       IF ~apiKey /\ aistudio
       THEN /\ pending' = Append(pending, [kind |-> "keycheck", file |-> f,
                                           hadKey |-> FALSE])
            /\ UNCHANGED isProcessing
       ELSE /\ pending' = Append(pending, [kind |-> "gemini", file |-> f,
                                           hadKey |-> apiKey])
            /\ isProcessing' = TRUE
  /\ UNCHANGED <<file, result, resultOf, apiKey, aistudio>>
  /\ UNCHANGED svars

\* hasSelectedApiKey / openSelectKey settle (a rejection is swallowed); the
\* user may have selected a key.  Then setIsProcessing(true) and the call
\* of repairWithGemini.
KeyCheckSettles ==
  /\ \E i \in 1..Len(pending), selected \in BOOLEAN :
       /\ pending[i].kind = "keycheck"
       /\ apiKey' = (apiKey \/ selected)
       /\ pending' = [pending EXCEPT ![i] =
                        [kind |-> "gemini", file |-> pending[i].file,
                         hadKey |-> apiKey']]
  /\ isProcessing' = TRUE
  /\ UNCHANGED <<file, result, resultOf, aistudio>>
  /\ UNCHANGED svars

\* The promise of repairWithGemini settles: try / catch / finally.
GeminiSettles ==
  /\ \E i \in 1..Len(pending) :
       /\ pending[i].kind = "gemini"
       /\ pending' = Remove(pending, i)
       /\ \E ai \in AiOutcomes(pending[i].file.content), env \in ParserEnvs :
            \E repair \in {repairWithGemini(pending[i].file.content,
                                            pending[i].hadKey, ai, env)} :
              IF repair.threw
              THEN UNCHANGED <<result, resultOf>>
              ELSE /\ result' = {repair}
                   /\ resultOf' = {pending[i].file}
  /\ isProcessing' = FALSE
  /\ UNCHANGED <<file, apiKey, aistudio>>
  /\ UNCHANGED svars

AppNext ==
  \/ HandleFileRead
  \/ ReaderOnLoad
  \/ ReaderOnError
  \/ RemoveFile
  \/ RunHeuristicRepair
  \/ TimerCallback
  \/ RunGeminiRepair
  \/ KeyCheckSettles
  \/ GeminiSettles

AppSpec == AppInit /\ [][AppNext]_vars

\* Timers fire and promises settle.
AppFairSpec ==
  /\ AppSpec
  /\ WF_vars(ReaderOnLoad)
  /\ WF_vars(TimerCallback)
  /\ WF_vars(KeyCheckSettles)
  /\ WF_vars(GeminiSettles)

\* ------------------------------------------------------------------------
\* Properties of the service functions (checked under Spec)
\* ------------------------------------------------------------------------

HeuristicReturned ==
  /\ call \in {"heuristicRepair", "heuristicRepairAgain"}
  /\ ~returned.threw

\* The characters of s that belong to set, in order.
RECURSIVE Keep(_, _)
Keep(s, set) ==
  IF s = <<>> THEN <<>>
  ELSE IF Head(s) \in set THEN <<Head(s)>> \o Keep(Tail(s), set)
  ELSE Keep(Tail(s), set)

Occurs(s, lit) == \E p \in 0..Len(s) : StartsWithAt(s, lit, p)

\* C1: every result returned by validateXML, heuristicRepair or
\* repairWithGemini has errors empty exactly when isValid is true, and an
\* invalid result carries one non-empty error string.
C1_ErrorsEmptyIffValid ==
  (call # "none" /\ ~returned.threw) =>
    /\ (returned.errors = <<>>) <=> returned.isValid
    /\ \A i \in 1..Len(returned.errors) : returned.errors[i] # ""
    /\ ~returned.isValid => Len(returned.errors) = 1

\* An invalid result whose parser message was empty: the fallback text.
C1_Witness ==
  /\ call \in {"validateXML", "heuristicRepair", "repairWithGemini"}
  /\ ~returned.threw
  /\ ~returned.isValid
  /\ returned.errors = <<"Unknown XML parsing error">>

\* C2: heuristicRepair reports wasModified exactly when fixedContent
\* differs from its argument in length or at some position.
C2_WasModifiedIffDiffers ==
  HeuristicReturned =>
    (returned.wasModified <=>
       \/ Len(returned.fixedContent) # Len(rawContent)
       \/ \E i \in 1..Len(rawContent) : returned.fixedContent[i] # rawContent[i])

\* A run in which the fixes changed the text.
C2_Witness ==
  /\ call = "heuristicRepair"
  /\ ~returned.threw
  /\ returned.wasModified
  /\ returned.fixedContent # rawContent

\* C3: running heuristicRepair on the fixedContent of a previous run
\* returns the same text and reports wasModified = false.
C3_Idempotent ==
  (call = "heuristicRepairAgain" /\ ~returned.threw) =>
    /\ returned.fixedContent = firstRun.fixedContent
    /\ ~returned.wasModified

\* A second run on a text to which the first run appended ">" and in which
\* it inserted an escape.
C3_Witness ==
  /\ call = "heuristicRepairAgain"
  /\ ~returned.threw
  /\ firstRun.wasModified
  /\ Occurs(rawContent, Lit(<<"&","l","t",";">>))
  /\ rawContent[Len(rawContent)] = 62
  /\ returned.fixedContent = rawContent

\* C4: a well-formed input comes back from heuristicRepair unchanged,
\* unmodified, valid and without errors.
C4_WellFormedUntouched ==
  (call = "heuristicRepair" /\ ~returned.threw /\ WellFormed(rawContent)) =>
    /\ returned.fixedContent = rawContent
    /\ ~returned.wasModified
    /\ returned.isValid
    /\ returned.errors = <<>>

\* Lower case of an ASCII letter.
LowerCase(c) == IF c >= 65 /\ c <= 90 THEN c + 32 ELSE c

\* The text between offset p (an "&") and the next ";" is one of the
\* recognized reference bodies.
RecognizedReferenceAt(s, p) ==
  \E q \in (p + 2)..(Len(s) - 1) :
    /\ CharAt(s, q) = 59
    /\ \A j \in (p + 1)..(q - 1) : CharAt(s, j) # 59
    /\ LET body == [i \in 1..(q - p - 1) |-> LowerCase(CharAt(s, p + i))] IN
       \/ body \in EntityNames
       \/ /\ Len(body) >= 2
          /\ body[1] = 35
          /\ \A i \in 2..Len(body) : body[i] \in 48..57
       \/ /\ Len(body) >= 3
          /\ body[1] = 35
          /\ body[2] = 120
          /\ \A i \in 3..Len(body) : body[i] \in (48..57) \cup (97..102)

\* s with every "&" that starts no recognized reference turned into "&amp;".
RECURSIVE EscapedFrom(_, _)
EscapedFrom(s, p) ==
  IF p >= Len(s) THEN <<>>
  ELSE (IF CharAt(s, p) = 38 /\ ~RecognizedReferenceAt(s, p)
        THEN Lit(<<"&","a","m","p",";">>)
        ELSE <<CharAt(s, p)>>) \o EscapedFrom(s, p + 1)

\* C5: the second fix turns exactly the "&" that start no recognized
\* reference into "&amp;", leaves the others, and every "&" of
\* fixedContent starts a recognized reference.
C5_AmpersandEscaping ==
  HeuristicReturned =>
    /\ stages[2] = EscapedFrom(stages[1], 0)
    /\ \A p \in 0..(Len(returned.fixedContent) - 1) :
         CharAt(returned.fixedContent, p) = 38 =>
           RecognizedReferenceAt(returned.fixedContent, p)

\* A text with a bare "&" and an upper-case reference, of which only the
\* former was escaped.
C5_Witness ==
  /\ call = "heuristicRepair"
  /\ ~returned.threw
  /\ stages[2] # stages[1]
  /\ Occurs(stages[1], Lit(<<"&","L","T",";">>))
  /\ Occurs(stages[2], Lit(<<"&","L","T",";">>))
  /\ \E p \in 0..(Len(stages[1]) - 1) :
       CharAt(stages[1], p) = 38 /\ ~RecognizedReferenceAt(stages[1], p)

\* C6: fixedContent has no character of 0x00-0x08, 0x0B, 0x0C, 0x0E-0x1F
\* and keeps the tabs, line feeds and carriage returns of the input in order.
C6_ControlCharacters ==
  HeuristicReturned =>
    /\ \A i \in 1..Len(returned.fixedContent) :
         returned.fixedContent[i] \notin (0..8) \cup {11, 12} \cup (14..31)
    /\ Keep(returned.fixedContent, {9, 10, 13}) = Keep(rawContent, {9, 10, 13})

\* An input with a control character next to a carriage return and a line
\* feed, returned without the former.
C6_Witness ==
  /\ call = "heuristicRepair"
  /\ ~returned.threw
  /\ \E i \in 1..Len(rawContent) : rawContent[i] = 1
  /\ Keep(rawContent, {9, 10, 13}) = <<13, 10>>
  /\ Len(returned.fixedContent) = Len(rawContent) - 1

\* A "<" before a tab rewritten by the third fix, the tab kept.
C6_WitnessTab ==
  /\ call = "heuristicRepair"
  /\ ~returned.threw
  /\ stages[3] # stages[2]
  /\ Keep(rawContent, {9, 10, 13}) = <<9>>

\* The text ends with "</" and a non-empty run of letters, digits, "-", "_".
EndsWithPartialClosingTag(s) ==
  \E p \in 0..(Len(s) - 3) :
    /\ CharAt(s, p) = 60
    /\ CharAt(s, p + 1) = 47
    /\ \A j \in (p + 2)..(Len(s) - 1) :
         CharAt(s, j) \in (97..122) \cup (65..90) \cup (48..57) \cup {45, 95}

\* C7: the fourth fix appends exactly one ">" when the text ends with a
\* partial closing tag and otherwise leaves the text as it is.
C7_TruncatedClosingTag ==
  HeuristicReturned =>
    /\ stages[4] = (IF EndsWithPartialClosingTag(stages[3])
                    THEN stages[3] \o <<62>> ELSE stages[3])
    /\ returned.fixedContent = stages[4]

\* A text with a partial closing tag inside and another at its end.
C7_Witness ==
  /\ call = "heuristicRepair"
  /\ ~returned.threw
  /\ stages[4] = stages[3] \o <<62>>
  /\ \E p \in 0..(Len(stages[3]) - 4) :
       /\ StartsWithAt(stages[3], Lit(<<"<","/","a">>), p)
       /\ ~IsTagNameChar(CharAt(stages[3], p + 3))
       /\ CharAt(stages[3], p + 3) # 62

\* A text without a partial closing tag at its end, left alone by the
\* fourth fix although one occurs inside.
C7_WitnessInside ==
  /\ call = "heuristicRepair"
  /\ ~returned.threw
  /\ stages[4] = stages[3]
  /\ Occurs(stages[3], Lit(<<"<","/","a","&">>))

\* C8: validateXML and heuristicRepair never throw: a failure of the parse
\* comes back as a result with isValid = false and a non-empty errors list.
C8_NeverThrows ==
  call \in {"validateXML", "heuristicRepair", "heuristicRepairAgain"} =>
    ~returned.threw

\* The four replacements applied in order on fresh regexes, without tests.
Unguarded(s) ==
  LET u1 == ReplaceLoop(illegalCharRegex, s, 0, 0, <<>>)
      u2 == ReplaceLoop(unescapedAmpRegex, u1, 0, 0, <<>>)
      u3 == ReplaceLoop(unescapedLtRegex, u2, 0, 0, <<>>)
      u4 == ReplaceLoop(malformedClosingRegex, u3, 0, 0, <<>>) IN
  <<u1, u2, u3, u4>>

\* C9: the pipeline guarded by test() yields, after every fix, the text
\* that the unguarded replacements yield.
C9_GuardedEqualsUnguarded ==
  HeuristicReturned =>
    /\ stages = Unguarded(rawContent)
    /\ returned.fixedContent = Unguarded(rawContent)[4]

\* A run in which a global fix had two matches to replace after its test.
C9_Witness ==
  /\ call = "heuristicRepair"
  /\ ~returned.threw
  /\ Len(stages[2]) >= Len(stages[1]) + 8

\* ------------------------------------------------------------------------
\* Properties of the App component (checked under AppFairSpec)
\* ------------------------------------------------------------------------

\* C10: whenever a repair run has set isProcessing, isProcessing becomes
\* false again.
C10_ProcessingEnds == isProcessing ~> ~isProcessing

\* C11: whenever result is set, a file is loaded and result was computed
\* from that file: a repair that completes after its file was removed or
\* replaced installs nothing.
C11_ResultOfLoadedFile ==
  result # {} => (file # {} /\ resultOf = file)

====
